---- MODULE Spec2Model ----
(***************************************************************************)
(* A model of the NeoFS SFTP gateway handlers (package handlers):          *)
(* path resolution, container/object listing, the objReader and the        *)
(* objWriter, and the request dispatch of Filelist / Fileread /            *)
(* Filewrite / Filecmd, over an abstract NeoFS backend.                    *)
(*                                                                         *)
(* Strings are sequences of one-character strings, so that TrimPrefix,     *)
(* Split and the identifier codecs are computed and not assumed.           *)
(***************************************************************************)
EXTENDS Integers, Sequences, FiniteSets, TLC

VARIABLES
    readOnly,    \* App.sftConfig.ReadOnly
    defaultBucketPolicy, \* App.defaultBucketPolicy, as configured
    containers,  \* backend: containers of the owner, in ContainerList order
    objects,     \* backend: root objects, in ObjectSearch order
    nextCid,     \* backend: next container identifier to assign
    nextOid,     \* backend: next object identifier to assign
    writers,     \* the objWriter of every handle (buffer = its temporary file)
    reader,      \* the objReader returned by the last successful Fileread
    res,         \* what the last handler call returned
    calls        \* backend API calls issued by the last handler call

vars == <<readOnly, defaultBucketPolicy, containers, objects, nextCid, nextOid, writers, reader, res, calls>>

----------------------------------------------------------------------------
(* Bounds of the model *)

MaxCnr == 2        \* containers the backend ever assigns an identifier to
MaxObj == 2        \* objects the backend ever assigns an identifier to
MaxLen == 2        \* bytes staged by one writer
MaxBuf == 3        \* length of a ReadAt buffer
MaxFail == 4       \* the external call of an operation that may fail (0: none)
MaxWriters == 2    \* writer handles open at once
MaxTime == 6        \* seconds on the clock and in stored timestamps
MaxObjectSize == 1 \* App.maxObjectSize, the chunk of the upload copy

----------------------------------------------------------------------------
(* Strings *)

delimiter == <<"/">>

Min(a, b) == IF a < b THEN a ELSE b

HasPrefix(s, prefix) ==
    /\ Len(s) >= Len(prefix)
    /\ SubSeq(s, 1, Len(prefix)) = prefix

TrimPrefix(s, prefix) ==
    IF HasPrefix(s, prefix) THEN SubSeq(s, Len(prefix) + 1, Len(s)) ELSE s

RECURSIVE SplitFrom(_, _)
SplitFrom(s, cur) ==
    IF s = <<>> THEN <<cur>>
    ELSE IF <<Head(s)>> = delimiter
         THEN <<cur>> \o SplitFrom(Tail(s), <<>>)
         ELSE SplitFrom(Tail(s), Append(cur, Head(s)))

\* strings.Split(s, delimiter): n delimiters give n + 1 segments
Split(s) == SplitFrom(s, <<>>)

----------------------------------------------------------------------------
(* Identifiers: cid.ID and oid.ID share one textual form (a fixed-length   *)
(* string over a fixed alphabet), modelled as one digit character.         *)

IdChars == <<"1", "2", "3", "4", "5", "6", "7", "8", "9">>

EncodeToString(id) == <<IdChars[id]>>

\* the identifier s decodes to, 0 when decoding fails
\* a resolver that takes every segment for a name
DecodeNothing(s) == 0

DecodeString(s) ==
    IF Len(s) = 1 /\ \E i \in 1..Len(IdChars) : IdChars[i] = s[1]
    THEN CHOOSE i \in 1..Len(IdChars) : IdChars[i] = s[1]
    ELSE 0

----------------------------------------------------------------------------
(* Entries (handlers/data.go) *)

ContainerInfo(cnrID, name) ==
    [type |-> "ContainerInfo", CID |-> cnrID, ObjectID |-> 0,
     FileName |-> name, PayloadSize |-> 0]

ObjectInfo(cnrID, objID, name, size) ==
    [type |-> "ObjectInfo", CID |-> cnrID, ObjectID |-> objID,
     FileName |-> name, PayloadSize |-> size]

NilInfo == [type |-> "nil", CID |-> 0, ObjectID |-> 0, FileName |-> <<>>, PayloadSize |-> 0]

Name(f) == f.FileName

\* entries that carry no size
SizeZero(f) == 0

Size(f) == IF f.type = "ObjectInfo" THEN f.PayloadSize ELSE 0

IsDir(f) == f.type = "ContainerInfo"

----------------------------------------------------------------------------
(* The backend, as the handlers see it through pool.Pool.                  *)
(* A handler call carries a context: the backend API calls it has issued,  *)
(* the number of fallible external steps it has taken (API calls, reads of *)
(* a backend stream, operating-system calls) and the step that fails.      *)

Ctx(failAt) == [calls |-> <<>>, step |-> 0, failAt |-> failAt, last |-> ""]

\* the header of a container handed to ContainerPut; none for other calls
NoHeader == [acl |-> "", policy |-> "", owner |-> ""]

Call(op, cnrID, objID, name, off, ln) ==
    [op |-> op, cnr |-> cnrID, obj |-> objID, name |-> name, off |-> off, len |-> ln,
     hdr |-> NoHeader]

\* issue one backend API call
Issue(c, call) == [c EXCEPT !.calls = Append(@, call), !.step = @ + 1, !.last = call.op]

\* one fallible step that is no API call (a stream read, an OS call)
Tick(c) == [c EXCEPT !.step = @ + 1, !.last = "stream"]

\* the step just taken is the one that fails
Fails(c) == c.step = c.failAt

\* the step that failed in a finished call, "" when none did
FailedStep(c) == IF c.failAt # 0 /\ c.step = c.failAt THEN c.last ELSE ""

Ret(c, err, val) == [c |-> c, err |-> err, val |-> val]

CnrIds == [i \in 1..Len(containers) |-> containers[i].id]

CnrExists(cnrID) == \E i \in 1..Len(containers) : containers[i].id = cnrID

CnrOf(cnrID) == containers[CHOOSE i \in 1..Len(containers) : containers[i].id = cnrID]

ObjExists(cnrID, objID) ==
    \E i \in 1..Len(objects) : objects[i].cnr = cnrID /\ objects[i].id = objID

ObjOf(cnrID, objID) ==
    objects[CHOOSE i \in 1..Len(objects) : objects[i].cnr = cnrID /\ objects[i].id = objID]

RECURSIVE SelectIds(_, _, _)
\* the identifiers an object search of container cnrID streams, in backend
\* order; filter is <<>> (root filter only) or <<name>> (FileName equals name)
SelectIds(objs, cnrID, filter) ==
    IF objs = <<>> THEN <<>>
    ELSE LET o == Head(objs)
             match == /\ o.cnr = cnrID
                      /\ filter # <<>> => (o.hasFileName /\ o.fileName = filter[1])
         IN  (IF match THEN <<o.id>> ELSE <<>>) \o SelectIds(Tail(objs), cnrID, filter)

----------------------------------------------------------------------------
(* Listing engine and path resolver *)

\* the value x handed to F: the Go idiom  r, err := f(...); ...
Bind(x, F(_)) == F(x)

getObjectFile(c, cnrID, objID) ==
    Bind(Issue(c, Call("ObjectHead", cnrID, objID, <<>>, 0, 0)), LAMBDA c1 :
      IF Fails(c1) THEN Ret(c1, "backend", NilInfo)
      ELSE IF ~ObjExists(cnrID, objID) THEN Ret(c1, "object not found", NilInfo)
      ELSE Bind(ObjOf(cnrID, objID), LAMBDA o :
             Ret(c1, "", ObjectInfo(cnrID, objID,
                                    IF o.hasFileName THEN o.fileName
                                    ELSE EncodeToString(objID),
                                    Len(o.payload)))))

\* listObjects' callback tests the outer err (nil while Iterate runs), not
\* inErr, so a failed head reaches obj.Name() on a nil *ObjectInfo
HeadFailureInCallback(r, result) == Ret(r.c, "panic", <<>>)

\* a listing that records no name
NeverSeen(existedFiles, name) == FALSE

\* first-seen wins: a name recorded in the existedFiles set is skipped
Seen(existedFiles, name) == name \in existedFiles

RECURSIVE objectsLoop(_, _, _, _, _)
objectsLoop(c, cnrID, ids, existedFiles, result) ==
    Bind(Tick(c), LAMBDA c1 :
      IF Fails(c1) THEN Ret(c1, "backend", result)
      ELSE IF ids = <<>> THEN Ret(c1, "", result)
      ELSE Bind(getObjectFile(c1, cnrID, Head(ids)), LAMBDA r :
             IF r.err # "" THEN HeadFailureInCallback(r, result)
             ELSE IF Seen(existedFiles, Name(r.val))
                  THEN objectsLoop(r.c, cnrID, Tail(ids), existedFiles, result)
                  ELSE objectsLoop(r.c, cnrID, Tail(ids),
                                   existedFiles \cup {Name(r.val)},
                                   Append(result, r.val))))

\* a listing that takes an empty search result for a failure
listObjectsNonEmpty(c, cnrID) ==
    Bind(Issue(c, Call("ObjectSearchInit", cnrID, 0, <<>>, 0, 0)), LAMBDA c1 :
      IF Fails(c1) \/ SelectIds(objects, cnrID, <<>>) = <<>> THEN Ret(c1, "backend", <<>>)
      ELSE objectsLoop(c1, cnrID, SelectIds(objects, cnrID, <<>>), {}, <<>>))

listObjects(c, cnrID) ==
    Bind(Issue(c, Call("ObjectSearchInit", cnrID, 0, <<>>, 0, 0)), LAMBDA c1 :
      IF Fails(c1) THEN Ret(c1, "backend", <<>>)
      ELSE objectsLoop(c1, cnrID, SelectIds(objects, cnrID, <<>>), {}, <<>>))

\* a lookup that takes the name for the object's identifier
getObjectFileById(c, cnrID, name) == getObjectFile(c, cnrID, DecodeString(name))

getObjectFileByName(c, cnrID, name) ==
    Bind(Issue(c, Call("ObjectSearchInit", cnrID, 0, name, 0, 0)), LAMBDA c1 :
      IF Fails(c1) THEN Ret(c1, "backend", NilInfo)
      ELSE Bind(Tick(c1), LAMBDA c2 :
             IF Fails(c2) THEN Ret(c2, "backend", NilInfo)
             ELSE Bind(SelectIds(objects, cnrID, <<name>>), LAMBDA ids :
                    IF ids = <<>> THEN Ret(c2, "not found", NilInfo)
                    ELSE getObjectFile(c2, cnrID, Head(ids)))))

getContainer(c, cnrID) ==
    Bind(Issue(c, Call("ContainerGet", cnrID, 0, <<>>, 0, 0)), LAMBDA c1 :
      IF Fails(c1) THEN Ret(c1, "backend", NilInfo)
      ELSE IF ~CnrExists(cnrID) THEN Ret(c1, "container not found", NilInfo)
      ELSE Bind(CnrOf(cnrID).name, LAMBDA cnrName :
             Ret(c1, "", ContainerInfo(cnrID,
                                       IF Len(cnrName) # 0 THEN cnrName
                                       ELSE EncodeToString(cnrID)))))

RECURSIVE containersLoop(_, _, _, _)
containersLoop(c, ids, existedFiles, result) ==
    IF ids = <<>> THEN Ret(c, "", result)
    ELSE Bind(getContainer(c, Head(ids)), LAMBDA r :
           IF r.err # "" THEN Ret(r.c, r.err, <<>>)
           ELSE IF Seen(existedFiles, Name(r.val))
                THEN containersLoop(r.c, Tail(ids), existedFiles, result)
                ELSE containersLoop(r.c, Tail(ids),
                                    existedFiles \cup {Name(r.val)},
                                    Append(result, r.val)))

listContainers(c) ==
    Bind(Issue(c, Call("ContainerList", 0, 0, <<>>, 0, 0)), LAMBDA c1 :
      IF Fails(c1) THEN Ret(c1, "backend", <<>>)
      ELSE containersLoop(c1, CnrIds, {}, <<>>))

getContainers(c) ==
    Bind(Issue(c, Call("ContainerList", 0, 0, <<>>, 0, 0)), LAMBDA c1 :
      IF Fails(c1) THEN Ret(c1, "backend", <<>>)
      ELSE containersLoop(c1, CnrIds, {}, <<>>))

RECURSIVE FirstNamed(_, _)
\* the first entry of fs whose name is name, NilInfo when there is none
FirstNamed(fs, name) ==
    IF fs = <<>> THEN NilInfo
    ELSE IF Name(Head(fs)) = name THEN Head(fs)
    ELSE FirstNamed(Tail(fs), name)

getContainerByName(c, name) ==
    Bind(DecodeString(name), LAMBDA cnrID :
      IF cnrID # 0 THEN getContainer(c, cnrID)
      ELSE Bind(getContainers(c), LAMBDA r :
             IF r.err # "" THEN Ret(r.c, r.err, NilInfo)
             ELSE Bind(FirstNamed(r.val, name), LAMBDA cnr :
                    IF cnr # NilInfo THEN Ret(r.c, "", cnr)
                    ELSE Ret(r.c, "not found", NilInfo))))

listPath(c, rawPath) ==
    Bind(TrimPrefix(rawPath, delimiter), LAMBDA path :
      IF path = <<>> THEN listContainers(c)
      ELSE Bind(getContainerByName(c, path), LAMBDA r :
             IF r.err # "" THEN Ret(r.c, r.err, <<>>)
             ELSE listObjects(r.c, r.val.CID)))

getFileStat(c, rawPath) ==
    Bind(TrimPrefix(rawPath, delimiter), LAMBDA path :
      IF path = <<>> THEN Ret(c, "", ContainerInfo(0, delimiter))
      ELSE Bind(Split(path), LAMBDA split :
           Bind(getContainerByName(c, split[1]), LAMBDA r :
             IF r.err # "" THEN Ret(r.c, r.err, NilInfo)
             ELSE IF Len(split) = 2 /\ Len(split[2]) > 0
                  THEN Bind(DecodeString(split[2]), LAMBDA id :
                         IF id = 0 THEN Ret(r.c, "decode", NilInfo)
                         ELSE getObjectFile(r.c, r.val.CID, id))
                  ELSE r)))

----------------------------------------------------------------------------
(* Mutating operations. A handler changes the backend at most once, as its *)
(* last step: the operators return that change as an effect.               *)

Effect(kind, cnrID, objID, name, payload) ==
    [kind |-> kind, cnr |-> cnrID, obj |-> objID, name |-> name, payload |-> payload]

NoEffect == Effect("none", 0, 0, <<>>, <<>>)

\* a delete that fetches the container before deleting it
deleteContainerFetched(c, cnrID) ==
    Bind(Issue(Issue(c, Call("ContainerGet", cnrID, 0, <<>>, 0, 0)),
               Call("ContainerDelete", cnrID, 0, <<>>, 0, 0)), LAMBDA c1 :
      IF Fails(c1) THEN Ret(c1, "backend", NoEffect)
      ELSE Ret(c1, "", Effect("ContainerDelete", cnrID, 0, <<>>, <<>>)))

deleteContainer(c, cnrID) ==
    Bind(Issue(c, Call("ContainerDelete", cnrID, 0, <<>>, 0, 0)), LAMBDA c1 :
      IF Fails(c1) THEN Ret(c1, "backend", NoEffect)
      ELSE Ret(c1, "", Effect("ContainerDelete", cnrID, 0, <<>>, <<>>)))

\* every path taken for a bucket
NoObjectPath(split) == FALSE

\* every path of two or more segments taken for an object
AnySecondSegment(split) == Len(split) >= 2

\* if len(split) == 2 && split[1] != ""
IsObjectPath(split) == Len(split) = 2 /\ split[2] # <<>>

deleteNeofsFile(c, rawPath) ==
    Bind(Split(TrimPrefix(rawPath, delimiter)), LAMBDA split :
    Bind(getContainerByName(c, split[1]), LAMBDA r :
      IF r.err # "" THEN Ret(r.c, r.err, NoEffect)
      ELSE IF IsObjectPath(split)
           THEN Bind(getObjectFileByName(r.c, r.val.CID, split[2]), LAMBDA o :
                  IF o.err # "" THEN Ret(o.c, o.err, NoEffect)
                  ELSE Bind(Issue(o.c, Call("ObjectDelete", r.val.CID, o.val.ObjectID,
                                            <<>>, 0, 0)), LAMBDA c1 :
                         IF Fails(c1) THEN Ret(c1, "backend", NoEffect)
                         ELSE Ret(c1, "", Effect("ObjectDelete", r.val.CID,
                                                 o.val.ObjectID, <<>>, <<>>))))
           ELSE deleteContainer(r.c, r.val.CID)))

\* the configured identity, App.owner
owner == "owner"

\* a container anyone may read and write
PublicACL == "public-read-write"

\* cnr.SetBasicACL(acl.Private)
BasicACL == "private"

\* netmap.PlacementPolicy.DecodeString: the policy, "" when s does not parse
PolicyDecodeString(s) == IF s = "REP 3" THEN s ELSE ""

\* putContainer: the put goes through a waiter, which polls the backend for
\* the new container after the put was accepted
putContainer(c, name) ==
    Bind(PolicyDecodeString(defaultBucketPolicy), LAMBDA policy :
      IF policy = "" THEN Ret(c, "invalid placement policy", NoEffect)
      ELSE Bind(Issue(c, [Call("ContainerPut", 0, 0, name, 0, 0) EXCEPT
                             !.hdr = [acl |-> BasicACL, policy |-> policy,
                                      owner |-> owner]]), LAMBDA c1 :
             IF Fails(c1) THEN Ret(c1, "container put", NoEffect)
             ELSE Bind(Issue(c1, Call("ContainerGet", nextCid, 0, <<>>, 0, 0)), LAMBDA c2 :
                    IF Fails(c2)
                    THEN Ret(c2, "container put", Effect("ContainerPut", 0, 0, name, <<>>))
                    ELSE Ret(c2, "", Effect("ContainerPut", 0, 0, name, <<>>)))))

\* handlers that do not consult the configuration
ReadOnlyIgnored == FALSE

\* a.sftConfig.ReadOnly
ReadOnly == readOnly

Filecmd(c, method, rawPath) ==
    IF ReadOnly THEN Ret(c, "permission denied", NoEffect)
    ELSE IF method = "Mkdir"
         THEN Bind(TrimPrefix(rawPath, delimiter), LAMBDA path :
                IF Len(Split(path)) > 1
                THEN Ret(c, "supported only first level dirs", NoEffect)
                ELSE putContainer(c, path))
    ELSE IF method \in {"Remove", "Rmdir"} THEN deleteNeofsFile(c, rawPath)
    ELSE Ret(c, "", NoEffect)

\* os.CreateTemp and the objWriter built on it
newWriter(c, obj) ==
    Bind(Tick(c), LAMBDA c1 :
      IF Fails(c1) THEN Ret(c1, "CreateTemp", NilInfo) ELSE Ret(c1, "", obj))

Filewrite(c, rawPath) ==
    IF ReadOnly THEN Ret(c, "permission denied", NilInfo)
    ELSE Bind(TrimPrefix(rawPath, delimiter), LAMBDA trimmed :
         Bind(Split(trimmed), LAMBDA split :
         Bind(getContainerByName(c, split[1]), LAMBDA r :
           IF r.err # "" THEN Ret(r.c, r.err, NilInfo)
           ELSE newWriter(r.c, ObjectInfo(r.val.CID, 0,
                                          TrimPrefix(trimmed, split[1] \o delimiter), 0)))))

\* a Get that hands any resolved entry to the reader
FilereadAnyEntry(c, rawPath) == getFileStat(c, rawPath)

Fileread(c, rawPath) ==
    Bind(getFileStat(c, rawPath), LAMBDA r :
      IF r.err # "" THEN Ret(r.c, r.err, NilInfo)
      ELSE IF r.val.type # "ObjectInfo" THEN Ret(r.c, "couldn't get file stat", NilInfo)
      ELSE r)

\* a Filelist behind the gate of the mutating handlers
FilelistGated(c, method, rawPath) ==
    IF ReadOnly THEN Ret(c, "permission denied", <<>>) ELSE listPath(c, rawPath)

Filelist(c, method, rawPath) ==
    IF method = "List" THEN listPath(c, rawPath)
    ELSE IF method = "Stat"
         THEN Bind(getFileStat(c, rawPath), LAMBDA r :
                IF r.err # "" THEN Ret(r.c, r.err, <<>>) ELSE Ret(r.c, "", <<r.val>>))
    ELSE Ret(c, "unsupported", <<>>)

----------------------------------------------------------------------------
(* Stream adapters *)

\* a file opened for appending: every write lands at the end
FileAppend(content, p, off) == content \o p

\* (*os.File).WriteAt on the temporary file: the file's content afterwards
FileWriteAt(content, p, off) ==
    IF p = <<>> THEN content
    ELSE [i \in 1..(IF Len(content) > off + Len(p) THEN Len(content) ELSE off + Len(p)) |->
            IF i > off /\ i <= off + Len(p) THEN p[i - off]
            ELSE IF i <= Len(content) THEN content[i]
            ELSE 0]

\* objWriter.WriteAt: [n, err, buffer]
WriteAt(buffer, p, off) ==
    IF off < 0 THEN [n |-> 0, err |-> "negative offset", buffer |-> buffer]
    ELSE [n |-> Len(p), err |-> "", buffer |-> FileWriteAt(buffer, p, off)]

\* a copy that stops after the first chunk
CopyFirstChunk(c, src, sent) == Ret(Tick(c), "", SubSeq(src, 1, Min(Len(src), MaxObjectSize)))

RECURSIVE CopyBuffer(_, _, _)
\* io.CopyBuffer(writer, w.buffer, chunk): the temporary file is read from its
\* start in chunks of maxObjectSize, each written to the upload stream
CopyBuffer(c, src, sent) ==
    IF src = <<>> THEN Ret(c, "", sent)
    ELSE Bind(Tick(c), LAMBDA c1 :
           IF Fails(c1) THEN Ret(c1, "CopyBuffer", sent)
           ELSE Bind(Min(Len(src), MaxObjectSize), LAMBDA n :
                  CopyBuffer(c1, SubSeq(src, n + 1, Len(src)), sent \o SubSeq(src, 1, n))))

\* an upload that sets no file name
FileNameUnset(w) == <<>>

\* the value of the FileName attribute of the uploaded object
FileNameAttribute(w) == Name(w.file)

\* objWriter.Close: the upload; the temporary file is removed on every path
Close(c, w) ==
    Bind(Issue(c, Call("ObjectPutInit", w.file.CID, 0, FileNameAttribute(w), 0, 0)), LAMBDA c1 :
      IF Fails(c1) THEN Ret(c1, "ObjectPutInit", NoEffect)
      ELSE IF ~CnrExists(w.file.CID) THEN Ret(c1, "ObjectPutInit", NoEffect)
      ELSE Bind(CopyBuffer(c1, w.buffer, <<>>), LAMBDA cp :
             IF cp.err # "" THEN Ret(cp.c, cp.err, NoEffect)
             ELSE Bind(Tick(cp.c), LAMBDA c2 :
                    IF Fails(c2) THEN Ret(c2, "writer close", NoEffect)
                    ELSE Ret(c2, "", Effect("ObjectPut", w.file.CID, 0,
                                            FileNameAttribute(w), cp.val)))))

\* the test with the end of the buffer counted as a short read
ShortReadOrFull(n, L) == n <= L

\* if n < len(b) { err = io.EOF }
ShortRead(n, L) == n < L

\* a stream read that delivers nothing and reports no error
ReadNothing(c, data, L, k) == [c |-> c, n |-> 0, err |-> ""]

\* io.ReadFull(res, b) followed by the n < len(b) test: L = len(b), the
\* stream holds data, and a failing stream read delivers k bytes first
ReadFull(c, data, L, k) ==
    IF L = 0 THEN [c |-> c, n |-> 0, err |-> ""]
    ELSE Bind(Tick(c), LAMBDA c1 :
         Bind(IF Fails(c1) THEN Min(k, Len(data)) ELSE Len(data), LAMBDA n :
           [c |-> c1, n |-> n, err |-> IF ShortRead(n, L) THEN "EOF" ELSE ""]))

\* the test with the offset S let through to the backend
PastEnd(file, off) == off > Size(file)

\* if off >= r.file.Size()
AtOrPastEnd(file, off) == off >= Size(file)

\* objReader.ReadAt(b, off) with len(b) = L: [c, n, err, data = b[:n]]
ReadAt(c, file, L, off, k) ==
    IF off < 0 THEN [c |-> c, n |-> 0, err |-> "negative offset", data |-> <<>>]
    ELSE IF AtOrPastEnd(file, off) THEN [c |-> c, n |-> 0, err |-> "EOF", data |-> <<>>]
    ELSE Bind(Min(L, Size(file) - off), LAMBDA length :
         Bind(Issue(c, Call("ObjectRangeInit", file.CID, file.ObjectID, <<>>, off, length)),
              LAMBDA c1 :
           IF Fails(c1) THEN [c |-> c1, n |-> 0, err |-> "backend", data |-> <<>>]
           ELSE IF ~ObjExists(file.CID, file.ObjectID)
                THEN [c |-> c1, n |-> 0, err |-> "object not found", data |-> <<>>]
           ELSE Bind(SubSeq(ObjOf(file.CID, file.ObjectID).payload, off + 1, off + length),
                     LAMBDA stream :
                  Bind(ReadFull(c1, stream, L, k), LAMBDA rf :
                    [c |-> rf.c, n |-> rf.n, err |-> rf.err,
                     data |-> SubSeq(stream, 1, rf.n)]))))

----------------------------------------------------------------------------
(* State machine: one action per handler call *)

NoWriter == [state |-> "none", file |-> NilInfo, buffer |-> <<>>, tmp |-> FALSE]

NoReader == [open |-> FALSE, file |-> NilInfo]

Result(op, method, path, err) ==
    [op |-> op, method |-> method, path |-> path, err |-> err, fail |-> "", h |-> 0,
     entries |-> <<>>, n |-> 0, data |-> <<>>, off |-> 0, len |-> 0]

InsertAt(seq, pos, x) == SubSeq(seq, 1, pos - 1) \o <<x>> \o SubSeq(seq, pos, Len(seq))

RECURSIVE Without(_, _)
\* seq without the elements whose index is in drop
Without(seq, drop) ==
    IF seq = <<>> THEN <<>>
    ELSE Without(SubSeq(seq, 1, Len(seq) - 1), drop)
         \o (IF Len(seq) \in drop THEN <<>> ELSE <<seq[Len(seq)]>>)

\* the backend after effect e; a new container or object gets the next
\* identifier and any place in the backend's enumeration order
Apply(e) ==
    CASE e.kind = "none" ->
            UNCHANGED <<containers, objects, nextCid, nextOid>>
      [] e.kind = "ContainerPut" ->
            /\ nextCid <= MaxCnr
            /\ \E pos \in 1..(Len(containers) + 1) :
                  containers' = InsertAt(containers, pos, [id |-> nextCid, name |-> e.name])
            /\ nextCid' = nextCid + 1
            /\ UNCHANGED <<objects, nextOid>>
      [] e.kind = "ContainerDelete" ->
            /\ containers' = Without(containers,
                                     {i \in 1..Len(containers) : containers[i].id = e.cnr})
            /\ objects' = Without(objects, {i \in 1..Len(objects) : objects[i].cnr = e.cnr})
            /\ UNCHANGED <<nextCid, nextOid>>
      [] e.kind = "ObjectDelete" ->
            /\ objects' = Without(objects,
                                  {i \in 1..Len(objects) :
                                      objects[i].cnr = e.cnr /\ objects[i].id = e.obj})
            /\ UNCHANGED <<containers, nextCid, nextOid>>
      [] e.kind = "ObjectPut" ->
            /\ nextOid <= MaxObj
            /\ \E pos \in 1..(Len(objects) + 1) :
                  objects' = InsertAt(objects, pos,
                                      [cnr |-> e.cnr, id |-> nextOid, hasFileName |-> TRUE,
                                       fileName |-> e.name, payload |-> e.payload])
            /\ nextOid' = nextOid + 1
            /\ UNCHANGED <<containers, nextCid>>

\* no request is being served: the last response has been delivered
Idle == res.op = "none"

OnFilelist(method, path, failAt) ==
    /\ Idle
    /\ \E r \in {Filelist(Ctx(failAt), method, path)} :
        /\ failAt <= r.c.step
        /\ res' = [Result("Filelist", method, path, r.err) EXCEPT
                       !.fail = FailedStep(r.c),
                       !.entries = IF r.err = "" THEN r.val ELSE <<>>]
        /\ calls' = r.c.calls
        /\ IF r.err = "panic"
           THEN /\ writers' = [h \in DOMAIN writers |-> NoWriter]
                /\ reader' = NoReader
           ELSE UNCHANGED <<writers, reader>>
        /\ UNCHANGED <<readOnly, defaultBucketPolicy, containers, objects, nextCid, nextOid>>

OnFileread(path, failAt) ==
    /\ Idle
    /\ \E r \in {Fileread(Ctx(failAt), path)} :
        /\ failAt <= r.c.step
        /\ res' = [Result("Fileread", "Get", path, r.err) EXCEPT
                       !.fail = FailedStep(r.c),
                       !.entries = IF r.err = "" THEN <<r.val>> ELSE <<>>]
        /\ calls' = r.c.calls
        /\ reader' = IF r.err = "" THEN [open |-> TRUE, file |-> r.val] ELSE reader
        /\ UNCHANGED <<readOnly, defaultBucketPolicy, containers, objects, nextCid, nextOid, writers>>

OnReadAt(L, off, failAt, k) ==
    /\ Idle
    /\ reader.open
    /\ \E r \in {ReadAt(Ctx(failAt), reader.file, L, off, k)} :
        /\ failAt <= r.c.step
        /\ k > 0 => (failAt = 2 /\ r.c.step = 2 /\ k <= r.c.calls[1].len)
        /\ res' = [Result("ReadAt", "", <<>>, r.err) EXCEPT
                       !.fail = FailedStep(r.c),
                       !.n = r.n, !.data = r.data, !.off = off, !.len = L,
                       !.entries = <<reader.file>>]
        /\ calls' = r.c.calls
        /\ UNCHANGED <<readOnly, defaultBucketPolicy, containers, objects, nextCid, nextOid, writers, reader>>

OnFilewrite(h, method, path, failAt) ==
    /\ Idle
    /\ writers[h].state # "open"
    /\ \E r \in {Filewrite(Ctx(failAt), path)} :
        /\ failAt <= r.c.step
        /\ res' = [Result("Filewrite", method, path, r.err) EXCEPT
                       !.fail = FailedStep(r.c), !.h = h]
        /\ calls' = r.c.calls
        /\ writers' = IF r.err = ""
                      THEN [writers EXCEPT ![h] = [state |-> "open", file |-> r.val,
                                                   buffer |-> <<>>, tmp |-> TRUE]]
                      ELSE writers
        /\ UNCHANGED <<readOnly, defaultBucketPolicy, containers, objects, nextCid, nextOid, reader>>

\* writers of one path sharing one staging file
OnWriteAtShared(h, p, off) ==
    /\ Idle
    /\ writers[h].state = "open"
    /\ off + Len(p) <= MaxLen
    /\ \E r \in {WriteAt(writers[h].buffer, p, off)} :
        /\ res' = [Result("WriteAt", "", <<>>, r.err) EXCEPT
                       !.h = h, !.n = r.n, !.data = p, !.off = off, !.len = Len(p)]
        /\ calls' = <<>>
        /\ writers' = [g \in DOMAIN writers |->
                          IF writers[g].state = "open" /\ writers[g].file = writers[h].file
                          THEN [writers[g] EXCEPT !.buffer = r.buffer]
                          ELSE writers[g]]
        /\ UNCHANGED <<readOnly, defaultBucketPolicy, containers, objects, nextCid, nextOid, reader>>

\* a write-through WriteAt: every call also uploads the staged bytes
OnWriteAtThrough(h, p, off) ==
    /\ Idle
    /\ writers[h].state = "open"
    /\ off + Len(p) <= MaxLen
    /\ \E r \in {WriteAt(writers[h].buffer, p, off)} :
        /\ res' = [Result("WriteAt", "", <<>>, r.err) EXCEPT
                       !.h = h, !.n = r.n, !.data = p, !.off = off, !.len = Len(p)]
        /\ calls' = <<Call("ObjectPutInit", writers[h].file.CID, 0, Name(writers[h].file), 0, 0)>>
        /\ writers' = [writers EXCEPT ![h].buffer = r.buffer]
        /\ Apply(Effect("ObjectPut", writers[h].file.CID, 0, Name(writers[h].file), r.buffer))
        /\ UNCHANGED <<readOnly, defaultBucketPolicy, reader>>

OnWriteAt(h, p, off) ==
    /\ Idle
    /\ writers[h].state = "open"
    /\ off + Len(p) <= MaxLen
    /\ \E r \in {WriteAt(writers[h].buffer, p, off)} :
        /\ res' = [Result("WriteAt", "", <<>>, r.err) EXCEPT
                       !.h = h, !.n = r.n, !.data = p, !.off = off, !.len = Len(p)]
        /\ calls' = <<>>
        /\ writers' = [writers EXCEPT ![h].buffer = r.buffer]
        /\ UNCHANGED <<readOnly, defaultBucketPolicy, containers, objects, nextCid, nextOid, reader>>

\* a removal placed after the upload, skipped by the early error returns
TmpLeftOnError(err) == err # ""

\* defer os.Remove(w.buffer.Name()): does the temporary file exist once
\* Close has returned err
TmpAfterClose(err) == FALSE

OnClose(h, failAt) ==
    /\ Idle
    /\ writers[h].state = "open"
    /\ \E r \in {Close(Ctx(failAt), writers[h])} :
        /\ failAt <= r.c.step
        /\ res' = [Result("Close", "", <<>>, r.err) EXCEPT
                       !.fail = FailedStep(r.c), !.h = h,
                       !.entries = <<writers[h].file>>, !.data = writers[h].buffer]
        /\ calls' = r.c.calls
        /\ writers' = [writers EXCEPT ![h] = [NoWriter EXCEPT !.state = "closed",
                                                            !.tmp = TmpAfterClose(r.err)]]
        /\ Apply(r.val)
        /\ UNCHANGED <<readOnly, defaultBucketPolicy, reader>>

OnFilecmd(method, path, failAt) ==
    /\ Idle
    /\ \E r \in {Filecmd(Ctx(failAt), method, path)} :
        /\ failAt <= r.c.step
        /\ res' = [Result("Filecmd", method, path, r.err) EXCEPT !.fail = FailedStep(r.c)]
        /\ calls' = r.c.calls
        /\ Apply(r.val)
        /\ UNCHANGED <<readOnly, defaultBucketPolicy, writers, reader>>

\* the response is delivered; the handlers keep nothing of a served request
Respond ==
    /\ ~Idle
    /\ res' = Result("none", "", <<>>, "")
    /\ calls' = <<>>
    /\ UNCHANGED <<readOnly, defaultBucketPolicy, containers, objects, nextCid, nextOid, writers, reader>>

----------------------------------------------------------------------------
(* Inputs *)

FailAts == 0..MaxFail

\* configured placement policies: one that parses, one that does not
Policies == {"REP 3", "REP"}

\* the writer handle of a session that uploads one file at a time
OneWriter == {1}

\* request paths: the root, a bucket by name and by identifier, a name no
\* bucket has, an empty second segment, an object by name and by identifier,
\* and three segments
Paths ==
    { <<"/">>, <<"/", "a">>, <<"/", "1">>, <<"/", "b">>,
      <<"/", "a", "/">>, <<"/", "a", "/", "f">>, <<"/", "a", "/", "1">>,
      <<"/", "a", "/", "f", "/", "g">> }

\* upload paths: a display name in a bucket, three segments, no such bucket
WritePaths == { <<"/", "a", "/", "f">>, <<"/", "a", "/", "f", "/", "g">>, <<"/", "b", "/", "f">> }

ListMethods == {"List", "Stat", "Readlink"}

WriteMethods == {"Put", "Open"}

CmdMethods == {"Setstat", "Rename", "Rmdir", "Mkdir", "Link", "Symlink", "Remove"}

Obj(cnrID, objID, hasFileName, fileName, payload) ==
    [cnr |-> cnrID, id |-> objID, hasFileName |-> hasFileName, fileName |-> fileName,
     payload |-> payload]

Cnr(cnrID, name) == [id |-> cnrID, name |-> name]

\* backend contents a session can start from: an empty bucket; two buckets
\* sharing a name, in either enumeration order; a bucket without a name
\* attribute holding an object without a FileName attribute; a bucket holding
\* two objects that share a file name, in either enumeration order
InitBackends ==
    { [cs |-> <<Cnr(1, <<"a">>)>>, os |-> <<>>],
      [cs |-> <<Cnr(1, <<"a">>), Cnr(2, <<"a">>)>>, os |-> <<Obj(2, 1, TRUE, <<"f">>, <<1>>)>>],
      [cs |-> <<Cnr(2, <<"a">>), Cnr(1, <<"a">>)>>, os |-> <<Obj(2, 1, TRUE, <<"f">>, <<1>>)>>],
      [cs |-> <<Cnr(1, <<>>)>>, os |-> <<Obj(1, 1, FALSE, <<>>, <<1, 2>>)>>],
      [cs |-> <<Cnr(1, <<"a">>)>>,
       os |-> <<Obj(1, 1, TRUE, <<"f">>, <<1>>), Obj(1, 2, TRUE, <<"f">>, <<2, 1>>)>>],
      [cs |-> <<Cnr(1, <<"a">>)>>,
       os |-> <<Obj(1, 2, TRUE, <<"f">>, <<2, 1>>), Obj(1, 1, TRUE, <<"f">>, <<1>>)>>] }

Init ==
    /\ readOnly \in BOOLEAN
    /\ defaultBucketPolicy \in Policies
    /\ \E b \in InitBackends :
          /\ containers = b.cs
          /\ objects = b.os
          /\ nextCid = Len(b.cs) + 1
          /\ nextOid = Len(b.os) + 1
    /\ writers = [h \in 1..MaxWriters |-> NoWriter]
    /\ reader = NoReader
    /\ res = Result("none", "", <<>>, "")
    /\ calls = <<>>

Next ==
    \/ \E m \in ListMethods, p \in Paths, f \in FailAts : OnFilelist(m, p, f)
    \/ \E p \in Paths, f \in FailAts : OnFileread(p, f)
    \/ \E L \in {1, MaxBuf}, f \in FailAts : OnReadAt(L, 0, f, 0)
    \/ \E h \in OneWriter, m \in WriteMethods, p \in WritePaths, f \in FailAts :
          OnFilewrite(h, m, p, f)
    \/ \E m \in CmdMethods, p \in Paths, f \in FailAts : OnFilecmd(m, p, f)
    \/ Respond

Spec == Init /\ [][Next]_vars

----------------------------------------------------------------------------
(* Upload and download of one bucket: a session that writes files into the *)
(* bucket "a", empty or holding a file f already, and reads them back      *)
(* through their identifiers.                                              *)

IoChunks == {<<>>, <<1>>, <<1, 2>>}

IoWritePath == <<"/", "a", "/", "f">>

IoReadPaths == {<<"/", "a", "/", "f">>} \cup {<<"/", "a", "/">> \o EncodeToString(i) : i \in 1..MaxObj}

IoListPaths == {<<"/", "a">>, IoWritePath}

InitIO ==
    /\ readOnly = FALSE
    /\ defaultBucketPolicy = "REP 3"
    /\ containers = <<[id |-> 1, name |-> <<"a">>]>>
    /\ objects \in {<<>>, <<Obj(1, 1, TRUE, <<"f">>, <<2>>)>>}
    /\ nextCid = 2
    /\ nextOid = Len(objects) + 1
    /\ writers = [h \in 1..MaxWriters |-> NoWriter]
    /\ reader = NoReader
    /\ res = Result("none", "", <<>>, "")
    /\ calls = <<>>

NextIO ==
    \/ \E h \in OneWriter, f \in FailAts : OnFilewrite(h, "Put", IoWritePath, f)
    \/ \E h \in OneWriter, p \in IoChunks, off \in -1..MaxLen : OnWriteAt(h, p, off)
    \/ \E h \in OneWriter, f \in FailAts : OnClose(h, f)
    \/ \E m \in {"List", "Stat"}, p \in IoListPaths, f \in FailAts : OnFilelist(m, p, f)
    \/ \E p \in IoReadPaths, f \in FailAts : OnFileread(p, f)
    \/ \E L \in 0..MaxBuf, off \in -1..(MaxLen + 1), f \in FailAts, k \in 0..MaxLen :
          OnReadAt(L, off, f, k)
    \/ Respond

SpecIO == InitIO /\ [][NextIO]_vars

----------------------------------------------------------------------------
(* A writable session of the operations other than List, uploads closed    *)
(* included, over the starting backends of at most one object.             *)

InitCalls ==
    /\ Init
    /\ readOnly = FALSE
    /\ defaultBucketPolicy = "REP 3"
    /\ Len(objects) <= 1

NextCalls ==
    \/ \E p \in Paths, f \in FailAts : OnFilelist("Stat", p, f)
    \/ \E p \in Paths, f \in FailAts : OnFileread(p, f)
    \/ \E f \in FailAts : OnReadAt(1, 0, f, 0)
    \/ \E h \in OneWriter, p \in WritePaths, f \in FailAts : OnFilewrite(h, "Put", p, f)
    \/ \E h \in OneWriter, f \in FailAts : OnClose(h, f)
    \/ \E m \in {"Mkdir", "Remove", "Rmdir"}, p \in Paths, f \in FailAts : OnFilecmd(m, p, f)
    \/ Respond

SpecCalls == InitCalls /\ [][NextCalls]_vars

----------------------------------------------------------------------------
(* Two configurations over one backend: a session of read requests in which *)
(* the gateway is set up anew with the other ReadOnly setting, the backend  *)
(* and the open reader staying as they are.                                 *)

\* NewApp with the other sftpConfig.ReadOnly
OnNewApp ==
    /\ Idle
    /\ readOnly' = ~readOnly
    /\ UNCHANGED <<defaultBucketPolicy, containers, objects, nextCid, nextOid, writers, reader, res, calls>>

InitRO == Init /\ readOnly = FALSE /\ defaultBucketPolicy = "REP 3"

NextRO ==
    \/ \E m \in ListMethods, p \in Paths, f \in FailAts : OnFilelist(m, p, f)
    \/ \E p \in Paths, f \in FailAts : OnFileread(p, f)
    \/ \E L \in {1, MaxBuf}, off \in 0..1, f \in FailAts : OnReadAt(L, off, f, 0)
    \/ OnNewApp
    \/ Respond

SpecRO == InitRO /\ [][NextRO]_vars

----------------------------------------------------------------------------
(* Objects with and without a FileName attribute in one bucket: the bucket *)
(* a holds an object without the attribute, alone, beside an object named  *)
(* f, or beside an object whose file name is the first one's identifier.   *)

AsymPaths ==
    { <<"/", "a">>, <<"/", "a", "/", "f">> }
    \cup { <<"/", "a", "/">> \o EncodeToString(i) : i \in 1..MaxObj }

InitAsym ==
    /\ readOnly = FALSE
    /\ defaultBucketPolicy = "REP 3"
    /\ containers = <<Cnr(1, <<"a">>)>>
    /\ objects \in { <<Obj(1, 1, FALSE, <<>>, <<1>>)>>,
                     <<Obj(1, 1, FALSE, <<>>, <<1>>), Obj(1, 2, TRUE, <<"f">>, <<2>>)>>,
                     <<Obj(1, 1, TRUE, EncodeToString(2), <<1>>),
                       Obj(1, 2, FALSE, <<>>, <<1, 2>>)>> }
    /\ nextCid = 2
    /\ nextOid = Len(objects) + 1
    /\ writers = [h \in 1..MaxWriters |-> NoWriter]
    /\ reader = NoReader
    /\ res = Result("none", "", <<>>, "")
    /\ calls = <<>>

NextAsym ==
    \/ \E m \in {"List", "Stat"}, p \in AsymPaths, f \in FailAts : OnFilelist(m, p, f)
    \/ \E p \in AsymPaths, f \in FailAts : OnFileread(p, f)
    \/ \E m \in {"Remove", "Rmdir"}, p \in AsymPaths, f \in FailAts : OnFilecmd(m, p, f)
    \/ Respond

SpecAsym == InitAsym /\ [][NextAsym]_vars

----------------------------------------------------------------------------
(* A sequential download: a client opens an object of the bucket a and     *)
(* reads it from offset 0 with one buffer length, advancing the offset by  *)
(* the returned count for as long as ReadAt returns no error.              *)

RECURSIVE Payloads(_)
\* the payloads of at most n bytes
Payloads(n) ==
    IF n = 0 THEN {<<>>}
    ELSE Payloads(n - 1) \cup {Append(p, b) : p \in {q \in Payloads(n - 1) : Len(q) = n - 1},
                                               b \in {1, 2}}

\* the client's next ReadAt, at the offset the last one ended at
OnReadAtNext(failAt, k) ==
    /\ res.op = "ReadAt" /\ res.err = "" /\ res.len > 0
    /\ reader.open
    /\ \E r \in {ReadAt(Ctx(failAt), reader.file, res.len, res.off + res.n, k)} :
        /\ failAt <= r.c.step
        /\ k > 0 => (failAt = 2 /\ r.c.step = 2 /\ k <= r.c.calls[1].len)
        /\ res' = [Result("ReadAt", "", <<>>, r.err) EXCEPT
                       !.fail = FailedStep(r.c),
                       !.n = r.n, !.data = r.data, !.off = res.off + res.n, !.len = res.len,
                       !.entries = <<reader.file>>]
        /\ calls' = r.c.calls
        /\ UNCHANGED <<readOnly, defaultBucketPolicy, containers, objects, nextCid, nextOid, writers, reader>>

InitSeq ==
    /\ readOnly = FALSE
    /\ defaultBucketPolicy = "REP 3"
    /\ containers = <<Cnr(1, <<"a">>)>>
    /\ objects \in {<<Obj(1, 1, TRUE, <<"f">>, p)>> : p \in Payloads(MaxBuf)}
    /\ nextCid = 2
    /\ nextOid = 2
    /\ writers = [h \in 1..MaxWriters |-> NoWriter]
    /\ reader = NoReader
    /\ res = Result("none", "", <<>>, "")
    /\ calls = <<>>

NextSeq ==
    \/ \E f \in 0..2 : OnFileread(<<"/", "a", "/">> \o EncodeToString(1), f)
    \/ \E L \in 1..MaxBuf, f \in 0..2, k \in 0..1 : OnReadAt(L, 0, f, k)
    \/ \E f \in 0..2, k \in 0..1 : OnReadAtNext(f, k)
    \/ Respond

SpecSeq == InitSeq /\ [][NextSeq]_vars

----------------------------------------------------------------------------
(* Paging through a listing: the ListerAt that Filelist returned is read    *)
(* with ListAt, at any offset or page by page from offset 0 by a client     *)
(* that collects the pages.                                                 *)

\* a ListAt that copies from the head of the list whatever the offset
ListAtFromStart(f, L, offset) ==
    IF offset >= Len(f) THEN [n |-> 0, err |-> "EOF", ls |-> <<>>]
    ELSE Bind(Min(L, Len(f)), LAMBDA n :
           [n |-> n, err |-> IF n < L THEN "EOF" ELSE "", ls |-> SubSeq(f, 1, n)])

\* ListerAt.ListAt(ls, offset) with len(ls) = L: [n, err, ls = ls[:n]]
ListAt(f, L, offset) ==
    IF offset >= Len(f) THEN [n |-> 0, err |-> "EOF", ls |-> <<>>]
    ELSE Bind(Min(L, Len(f) - offset), LAMBDA n :
           [n |-> n, err |-> IF n < L THEN "EOF" ELSE "",
            ls |-> SubSeq(f, offset + 1, offset + n)])

\* the first ListAt on the lister of the request just served; a client that
\* starts at offset 0 with a non-empty buffer is paging
OnListAt(L, offset) ==
    /\ res.op = "Filelist" /\ res.err = ""
    /\ \E r \in {ListAt(res.entries, L, offset)} :
          res' = [Result("ListAt", IF offset = 0 /\ L > 0 THEN "page" ELSE "at", res.path, r.err)
                     EXCEPT !.entries = res.entries, !.n = r.n, !.data = r.ls,
                            !.off = offset, !.len = L]
    /\ UNCHANGED <<readOnly, defaultBucketPolicy, containers, objects, nextCid, nextOid, writers, reader, calls>>

\* the paging client's next ListAt, at the offset the last page ended at
OnListAtNext ==
    /\ res.op = "ListAt" /\ res.method = "page" /\ res.err = ""
    /\ \E r \in {ListAt(res.entries, res.len, res.off + res.n)} :
          res' = [res EXCEPT !.err = r.err, !.n = r.n, !.data = res.data \o r.ls,
                             !.off = res.off + res.n]
    /\ UNCHANGED <<readOnly, defaultBucketPolicy, containers, objects, nextCid, nextOid, writers, reader, calls>>

ListPaths == { <<"/">>, <<"/", "a">>, <<"/", "a", "/">> \o EncodeToString(1) }

InitList ==
    /\ readOnly = FALSE
    /\ defaultBucketPolicy = "REP 3"
    /\ containers \in { <<Cnr(1, <<"a">>)>>, <<Cnr(1, <<"a">>), Cnr(2, <<>>)>> }
    /\ objects \in { <<>>,
                     <<Obj(1, 1, FALSE, <<>>, <<1>>)>>,
                     <<Obj(1, 1, FALSE, <<>>, <<1>>), Obj(1, 2, TRUE, <<"f">>, <<2>>)>> }
    /\ nextCid = Len(containers) + 1
    /\ nextOid = Len(objects) + 1
    /\ writers = [h \in 1..MaxWriters |-> NoWriter]
    /\ reader = NoReader
    /\ res = Result("none", "", <<>>, "")
    /\ calls = <<>>

NextList ==
    \/ \E m \in {"List", "Stat"}, p \in ListPaths, f \in FailAts : OnFilelist(m, p, f)
    \/ \E L \in 0..MaxBuf, offset \in 0..MaxBuf : OnListAt(L, offset)
    \/ OnListAtNext
    \/ Respond

SpecList == InitList /\ [][NextList]_vars

----------------------------------------------------------------------------
(* Concurrent uploads: several requests, each owning one writer, put to the *)
(* same path of an empty bucket; their WriteAt and Close calls interleave.  *)

\* a Put request whose writer is new: a closed writer is not opened again
OnPut(h, failAt) ==
    /\ writers[h].state = "none"
    /\ OnFilewrite(h, "Put", IoWritePath, failAt)

InitWW ==
    /\ readOnly = FALSE
    /\ defaultBucketPolicy = "REP 3"
    /\ containers = <<[id |-> 1, name |-> <<"a">>]>>
    /\ objects = <<>>
    /\ nextCid = 2
    /\ nextOid = 1
    /\ writers = [h \in 1..MaxWriters |-> NoWriter]
    /\ reader = NoReader
    /\ res = Result("none", "", <<>>, "")
    /\ calls = <<>>

NextWW ==
    \/ \E h \in 1..MaxWriters, f \in FailAts : OnPut(h, f)
    \/ \E h \in 1..MaxWriters, p \in IoChunks, off \in -1..MaxLen : OnWriteAt(h, p, off)
    \/ \E h \in 1..MaxWriters, f \in FailAts : OnClose(h, f)
    \/ Respond

SpecWW == InitWW /\ [][NextWW]_vars

----------------------------------------------------------------------------
(* The in-memory writer (handlers/app.go): the staged bytes are held in a   *)
(* bytes.Buffer, which only grows at its end.                               *)

\* a test that also lets a write inside the staged bytes through
AppendsOrInside(buffer, off) == off <= Len(buffer)

\* off == int64(w.buffer.Len())
Appends(buffer, off) == off = Len(buffer)

\* objWriter.WriteAt of the in-memory writer: [n, err, buffer]
WriteAtBuffer(buffer, p, off) ==
    IF ~Appends(buffer, off) THEN [n |-> 0, err |-> "unsupported", buffer |-> buffer]
    ELSE [n |-> Len(p), err |-> "", buffer |-> buffer \o p]

\* newWriter: a writer over an empty bytes.Buffer for a file of bucket a
OnNewWriter(h) ==
    /\ Idle
    /\ writers[h].state = "none"
    /\ res' = [Result("newWriter", "", <<>>, "") EXCEPT !.h = h]
    /\ calls' = <<>>
    /\ writers' = [writers EXCEPT ![h] = [state |-> "open",
                                          file |-> ObjectInfo(1, 0, <<"f">>, 0),
                                          buffer |-> <<>>, tmp |-> FALSE]]
    /\ UNCHANGED <<readOnly, defaultBucketPolicy, containers, objects, nextCid, nextOid, reader>>

OnWriteAtBuffer(h, p, off) ==
    /\ Idle
    /\ writers[h].state = "open"
    /\ \E r \in {WriteAtBuffer(writers[h].buffer, p, off)} :
        /\ Len(r.buffer) <= MaxLen
        /\ res' = [Result("WriteAt", "", <<>>, r.err) EXCEPT
                       !.h = h, !.n = r.n, !.data = p, !.off = off, !.len = Len(p)]
        /\ calls' = <<>>
        /\ writers' = [writers EXCEPT ![h].buffer = r.buffer]
        /\ UNCHANGED <<readOnly, defaultBucketPolicy, containers, objects, nextCid, nextOid, reader>>

NextAppend ==
    \/ \E h \in 1..MaxWriters : OnNewWriter(h)
    \/ \E h \in 1..MaxWriters, p \in IoChunks, off \in -1..MaxLen : OnWriteAtBuffer(h, p, off)
    \/ Respond

SpecAppend == InitWW /\ [][NextAppend]_vars

----------------------------------------------------------------------------
(* Creation time of an entry: what getContainer and getObjectFile put into   *)
(* Created, from the stored Timestamp attribute and the clock. Times are     *)
(* seconds since the epoch; a Timestamp attribute is a string, <<>> if unset *)

\* the zero time.Time, which lies before the epoch
ZeroTime == -1

IsZero(t) == t = ZeroTime

Digits == <<"0", "1", "2", "3", "4", "5", "6", "7", "8", "9">>

\* strconv.ParseInt(s, 10, 64) on one-digit strings: [ok, val]
ParseInt(s) ==
    IF Len(s) = 1 /\ \E k \in 1..Len(Digits) : Digits[k] = s[1]
    THEN [ok |-> TRUE, val |-> (CHOOSE k \in 1..Len(Digits) : Digits[k] = s[1]) - 1]
    ELSE [ok |-> FALSE, val |-> 0]

\* strconv.FormatInt(t, 10)
FormatInt(t) == <<Digits[t + 1]>>

\* container.Container.CreatedAt: the stored time; without a usable
\* attribute the library returns the zero time (zero) or the epoch
CreatedAt(attr, zero) ==
    IF ParseInt(attr).ok THEN ParseInt(attr).val
    ELSE IF zero THEN ZeroTime ELSE 0

\* Created of the ContainerInfo built by getContainer at time now
containerCreated(attr, now, zero) ==
    Bind(CreatedAt(attr, zero), LAMBDA createdTime :
      IF IsZero(createdTime) THEN createdTime ELSE now)

\* Created of the ObjectInfo built by getObjectFile at time now
objectCreated(attr, now) ==
    IF attr # <<>> /\ ParseInt(attr).ok THEN ParseInt(attr).val ELSE now

\* stored Timestamp attributes: unset, unparseable, or a time
Timestamps == {<<>>, <<"x">>} \cup {FormatInt(t) : t \in 0..MaxTime}

OnGetContainerTime(attr, now, zero) ==
    /\ Idle
    /\ res' = [Result("getContainer", "", <<>>, "") EXCEPT
                   !.data = attr, !.off = now, !.n = containerCreated(attr, now, zero)]
    /\ calls' = <<Call("ContainerGet", 1, 0, <<>>, 0, 0)>>
    /\ UNCHANGED <<readOnly, defaultBucketPolicy, containers, objects, nextCid, nextOid, writers, reader>>

OnGetObjectTime(attr, now) ==
    /\ Idle
    /\ res' = [Result("getObjectFile", "", <<>>, "") EXCEPT
                   !.data = attr, !.off = now, !.n = objectCreated(attr, now)]
    /\ calls' = <<Call("ObjectHead", 1, 1, <<>>, 0, 0)>>
    /\ UNCHANGED <<readOnly, defaultBucketPolicy, containers, objects, nextCid, nextOid, writers, reader>>

NextTime ==
    \/ \E attr \in Timestamps, now \in 1..MaxTime, zero \in BOOLEAN :
          OnGetContainerTime(attr, now, zero)
    \/ \E attr \in Timestamps, now \in 1..MaxTime : OnGetObjectTime(attr, now)
    \/ Respond

SpecTime == InitWW /\ [][NextTime]_vars

----------------------------------------------------------------------------
(* Properties of the reader: range clamp and offset checks *)

\* the last call was a ReadAt inside the object, and neither the range
\* request nor the stream failed
C1_InRange ==
    /\ res.op = "ReadAt"
    /\ res.fail = ""
    /\ res.err # "object not found"
    /\ 0 <= res.off
    /\ res.off < Size(res.entries[1])

\* C1 as stated: ReadAt(b, o) with 0 <= o < S and len(b) = L returns
\* n = min(L, S-o) bytes and returns io.EOF if and only if o + n = S, also
\* when L is exactly S-o.
C1_EofIffEndReached ==
    C1_InRange =>
        /\ res.n = Min(res.len, Size(res.entries[1]) - res.off)
        /\ (res.err = "EOF") <=> (res.off + res.n = Size(res.entries[1]))

\* C1 as the code has it: ReadAt(b, o) with 0 <= o < S and len(b) = L returns
\* the n = min(L, S-o) bytes of the object from offset o, and returns io.EOF
\* if and only if n < L, that is L > S-o; with L = S-o the error is nil.
C1_EofIffShort ==
    C1_InRange =>
        /\ res.n = Min(res.len, Size(res.entries[1]) - res.off)
        /\ res.data = SubSeq(ObjOf(res.entries[1].CID, res.entries[1].ObjectID).payload,
                             res.off + 1, res.off + res.n)
        /\ res.err \in {"", "EOF"}
        /\ (res.err = "EOF") <=> (res.len > Size(res.entries[1]) - res.off)

\* a read whose buffer ends exactly at the end of the object, without EOF
C1_ExactFit ==
    /\ C1_InRange
    /\ res.len > 0
    /\ res.off > 0
    /\ res.len = Size(res.entries[1]) - res.off
    /\ res.n = res.len
    /\ res.err = ""

\* C2: ReadAt with off < 0 returns an error and issues no backend range call;
\* ReadAt with off >= S returns (0, io.EOF) and issues no backend range call;
\* for every buffer length, zero included, and whatever was called before.
C2_OffsetChecks ==
    res.op = "ReadAt" =>
        /\ res.off < 0 => (res.err = "negative offset" /\ res.n = 0 /\ calls = <<>>)
        /\ res.off >= Size(res.entries[1]) => (res.err = "EOF" /\ res.n = 0 /\ calls = <<>>)

\* a read of a non-empty object at offset S with an empty buffer
C2_AtEnd ==
    /\ res.op = "ReadAt"
    /\ Size(res.entries[1]) > 0
    /\ res.off = Size(res.entries[1])
    /\ res.len = 0
    /\ res.err = "EOF"
    /\ calls = <<>>

----------------------------------------------------------------------------
(* Properties of the upload *)

RECURSIVE ReadAll(_, _, _, _)
\* a client that reads file from offset off with buffers of length L until
\* io.EOF: the bytes it has collected, -1 marking any other error
ReadAll(file, L, off, acc) ==
    IF off > Size(file) THEN acc \o <<-1>>
    ELSE Bind(ReadAt(Ctx(0), file, L, off, 0), LAMBDA r :
           IF r.err = "EOF" THEN acc \o r.data
           ELSE IF r.err # "" \/ r.n = 0 THEN acc \o <<-1>>
           ELSE ReadAll(file, L, off + r.n, acc \o r.data))

\* the objects of container cnrID that carry the file name name
Named(objs, cnrID, name) ==
    {i \in 1..Len(objs) : objs[i].cnr = cnrID /\ objs[i].hasFileName /\ objs[i].fileName = name}

\* a step of writer h: a sequential WriteAt appends its bytes; a successful
\* Close of content C under a name the bucket does not have adds exactly one
\* object, of that name and payload C, which a client reads back as C
C3_Step(h) ==
    /\ (res'.op = "WriteAt" /\ res'.h = h /\ res'.err = "" /\ res'.off = Len(writers[h].buffer))
          => writers'[h].buffer = writers[h].buffer \o res'.data
    /\ (res'.op = "Filewrite" /\ res'.h = h /\ res'.err = "") => writers'[h].buffer = <<>>
    /\ (res'.op = "Close" /\ res'.h = h /\ res'.err = ""
            /\ Named(objects, writers[h].file.CID, Name(writers[h].file)) = {})
          => \E id \in {nextOid}, w \in {writers[h]} :
                /\ \E pos \in 1..(Len(objects) + 1) :
                      objects' = InsertAt(objects, pos,
                                          Obj(w.file.CID, id, TRUE, Name(w.file), w.buffer))
                /\ Cardinality(Named(objects', w.file.CID, Name(w.file))) = 1
                /\ \A L \in 1..MaxBuf :
                      \E o \in {getObjectFile(Ctx(0), w.file.CID, id)'} :
                          /\ o.err = ""
                          /\ ReadAll(o.val, L, 0, <<>>)' = w.buffer

\* C3: writing any byte sequence C, the empty one included, through
\* sequential WriteAt calls to a name not yet in the bucket and closing
\* creates exactly one object with that file name and payload C, and reading
\* it back with successive ReadAt calls from offset 0 until io.EOF yields C.
C3_RoundTrip == [][\A h \in 1..MaxWriters : C3_Step(h)]_vars

\* a closed upload of more than one chunk under a name that is now unique
C3_Uploaded ==
    /\ res.op = "Close"
    /\ res.err = ""
    /\ Len(res.data) > MaxObjectSize
    /\ Cardinality(Named(objects, res.entries[1].CID, Name(res.entries[1]))) = 1

\* a Get or Stat of the upload path, no backend call failing, while the
\* bucket holds exactly one object of that file name
C4_Written ==
    /\ res.op \in {"Fileread", "Filelist"}
    /\ res.op = "Filelist" => res.method = "Stat"
    /\ res.path = IoWritePath
    /\ res.fail = ""
    /\ Cardinality(Named(objects, containers[1].id, <<"f">>)) = 1

\* C4: after n bytes are written to /<bucket>/<name> and the writer is
\* closed, Get on that path returns a reader whose full read equals the
\* written bytes, and Stat on that path returns a non-directory entry of
\* size n.
C4_GetByName ==
    C4_Written =>
        \E i \in Named(objects, containers[1].id, <<"f">>) :
            /\ res.err = ""
            /\ Len(res.entries) = 1
            /\ ~IsDir(res.entries[1])
            /\ Size(res.entries[1]) = Len(objects[i].payload)
            /\ res.op = "Fileread" =>
                  \A L \in 1..MaxBuf : ReadAll(res.entries[1], L, 0, <<>>) = objects[i].payload

\* a step that serves no write: the backend's objects stay as they are, and
\* a listing shows no name that only an open writer carries
C9_Step ==
    /\ res'.op = "WriteAt" => (calls' = <<>> /\ objects' = objects /\ containers' = containers)
    /\ objects' # objects => (res'.op = "Close" /\ res'.err = "")
    /\ \A h \in 1..MaxWriters :
          (/\ res'.op = "Filelist"
           /\ res'.err = ""
           /\ writers'[h].state = "open"
           /\ Named(objects', writers'[h].file.CID, Name(writers'[h].file)) = {})
          => \A j \in 1..Len(res'.entries) :
                ~(/\ res'.entries[j].type = "ObjectInfo"
                  /\ res'.entries[j].CID = writers'[h].file.CID
                  /\ Name(res'.entries[j]) = Name(writers'[h].file))

\* C9: between Filewrite and Close no WriteAt issues a backend put; before
\* Close has succeeded the backend's objects are unchanged, so a List or Stat
\* sees no new object; a writer never closed creates no object.
C9_NothingBeforeClose == [][C9_Step]_vars

\* a listing of the bucket, empty while a writer holds staged bytes
C9_StagedUnlisted ==
    /\ res.op = "Filelist"
    /\ res.method = "List"
    /\ res.err = ""
    /\ res.entries = <<>>
    /\ \E h \in 1..MaxWriters : writers[h].state = "open" /\ writers[h].buffer # <<>>

\* a step on a bucket that has the name already: Close adds one object of a
\* new identifier and the same file name and leaves the others as they
\* were; a listing shows every file name of the bucket once
C10_Step ==
    /\ \A h \in 1..MaxWriters :
          (/\ res'.op = "Close" /\ res'.h = h /\ res'.err = ""
           /\ Named(objects, writers[h].file.CID, Name(writers[h].file)) # {})
          => \E id \in {nextOid}, w \in {writers[h]} :
                /\ \A i \in 1..Len(objects) : objects[i].id # id
                /\ \E pos \in 1..(Len(objects) + 1) :
                      objects' = InsertAt(objects, pos,
                                          Obj(w.file.CID, id, TRUE, Name(w.file), w.buffer))
                /\ Cardinality(Named(objects', w.file.CID, Name(w.file)))
                      = Cardinality(Named(objects, w.file.CID, Name(w.file))) + 1
    /\ (res'.op = "Filelist" /\ res'.method = "List" /\ res'.err = ""
            /\ res'.path = <<"/", "a">>)
          => \A i \in 1..Len(objects') :
                (objects'[i].cnr = containers'[1].id /\ objects'[i].hasFileName)
                => Cardinality({j \in 1..Len(res'.entries) :
                                   Name(res'.entries[j]) = objects'[i].fileName}) = 1

\* C10: closing a writer for a name the bucket already has leaves every
\* earlier object untouched and adds one more object carrying the same file
\* name; a later listing of the bucket shows that name exactly once.
C10_NoInPlaceUpdate == [][C10_Step]_vars

\* a listing of one entry for a bucket holding two objects of one file name
C10_TwoListedOnce ==
    /\ res.op = "Filelist"
    /\ res.method = "List"
    /\ res.err = ""
    /\ Cardinality(Named(objects, containers[1].id, <<"f">>)) = 2
    /\ Len(res.entries) = 1

----------------------------------------------------------------------------
(* Properties of the dispatcher, the resolver and the listing engine *)

\* the path has more than two non-empty segments
C5_Deep(path) ==
    Cardinality({i \in 1..Len(Split(path)) : Split(path)[i] # <<>>}) > 2

\* C5: for every operation a path with more than two non-empty segments is
\* rejected with an error; no entry, reader or writer is returned and no
\* bucket or object is created or deleted.
C5_DepthLimit ==
    [][C5_Deep(res'.path) =>
          /\ res'.err # ""
          /\ res'.entries = <<>>
          /\ writers' = writers
          /\ reader' = reader
          /\ containers' = containers
          /\ objects' = objects]_vars

\* C6: with ReadOnly set, Put/Open (Filewrite) and Mkdir/Remove/Rmdir
\* (Filecmd) return permission-denied and issue no backend call, for every
\* path; no writer is handed out.
C6_ReadOnlyGate ==
    (readOnly /\ res.op \in {"Filewrite", "Filecmd"}) =>
        /\ res.err = "permission denied"
        /\ calls = <<>>
        /\ \A h \in 1..MaxWriters : writers[h].state # "open"

\* a Remove of an existing object's path refused in read-only mode
C6_RemoveRefused ==
    /\ readOnly
    /\ res.op = "Filecmd"
    /\ res.method = "Remove"
    /\ res.path = <<"/", "a", "/", "f">>
    /\ Named(objects, containers[1].id, <<"f">>) # {}
    /\ res.err = "permission denied"

\* a listing has been served
C7_Listed == res.op = "Filelist" /\ res.method = "List" /\ res.err = ""

\* the entries the backend enumerates for the listed path, in its order
C7_Fetched ==
    IF TrimPrefix(res.path, delimiter) = <<>>
    THEN [i \in 1..Len(containers) |-> getContainer(Ctx(0), containers[i].id).val]
    ELSE \* the bucket the path resolves to, and its objects
         LET cnrID == getContainerByName(Ctx(0), TrimPrefix(res.path, delimiter)).val.CID
             ids == SelectIds(objects, cnrID, <<>>)
         IN  [i \in 1..Len(ids) |-> getObjectFile(Ctx(0), cnrID, ids[i]).val]

\* C7: listObjects and listContainers return at most one entry per display
\* name; of several entries sharing a name the first in the backend's
\* enumeration order is returned, and the kept entries stay in that order.
C7_Dedup ==
    C7_Listed =>
        /\ res.entries = Without(C7_Fetched,
                                 {i \in 1..Len(C7_Fetched) :
                                     \E j \in 1..(i - 1) : Name(C7_Fetched[j]) = Name(C7_Fetched[i])})
        /\ \A i, j \in 1..Len(res.entries) :
              Name(res.entries[i]) = Name(res.entries[j]) => i = j

\* a listing of two objects sharing a name that kept the one enumerated
\* first, which is not the one of the smaller identifier
C7_FirstKept ==
    /\ C7_Listed
    /\ Len(C7_Fetched) = 2
    /\ Len(res.entries) = 1
    /\ res.entries[1].type = "ObjectInfo"
    /\ res.entries[1].ObjectID = 2

\* C8: if the metadata fetch (head/get) of an enumerated object or bucket
\* fails during a listing, the listing returns that error to the caller with
\* no partial result, and the failed fetch is the last backend call.
C8_FailFast ==
    (res.op = "Filelist" /\ res.method = "List" /\ res.fail \in {"ObjectHead", "ContainerGet"}) =>
        /\ res.err = "backend"
        /\ res.entries = <<>>
        /\ calls[Len(calls)].op = res.fail

----------------------------------------------------------------------------
(* Properties of concurrent uploads *)

\* a step of the request owning writer h, beside the writers of the other
\* requests: a WriteAt changes the staged bytes of h alone, by the bytes
\* written at their offset; a Close that no failure interrupts succeeds, also
\* when the name exists by then, and adds one object of a new identifier
\* whose payload is what was staged through h; no other writer changes
C11_Step(h) ==
    /\ res'.h = h => \A g \in (1..MaxWriters) \ {h} : writers'[g] = writers[g]
    /\ (res'.op = "WriteAt" /\ res'.h = h /\ res'.err = "")
          => writers'[h] = [writers[h] EXCEPT !.buffer = FileWriteAt(@, res'.data, res'.off)]
    /\ (res'.op = "Close" /\ res'.h = h /\ res'.fail = "")
          => \E id \in {nextOid}, w \in {writers[h]} :
                /\ res'.err = ""
                /\ \A i \in 1..Len(objects) : objects[i].id # id
                /\ \E pos \in 1..(Len(objects) + 1) :
                      objects' = InsertAt(objects, pos,
                                          Obj(w.file.CID, id, TRUE, Name(w.file), w.buffer))

\* C11: for every interleaving of the WriteAt and Close calls of two writers
\* opened on the same /bucket/name, both Close calls succeed when the puts
\* succeed, two distinct objects of that name result, and each object's
\* payload is exactly the bytes written through its own writer.
C11_OwnBytes == [][\A h \in 1..MaxWriters : C11_Step(h)]_vars

\* two writers of one path, closed after interleaved writes of different
\* bytes: two objects of the name, of different payloads
C11_BothUploaded ==
    /\ \A h \in 1..2 : writers[h].state = "closed"
    /\ Len(objects) = 2
    /\ objects[1].id # objects[2].id
    /\ objects[1].fileName = objects[2].fileName
    /\ objects[1].payload # objects[2].payload
    /\ objects[1].payload # <<>>
    /\ objects[2].payload # <<>>

\* a Mkdir served in non-read-only mode
C12_Mkdir == res.op = "Filecmd" /\ res.method = "Mkdir" /\ ~readOnly

\* the segments of the path of the last request
C12_Segments == Split(TrimPrefix(res.path, delimiter))

\* the last request issued exactly one bucket creation: of the display name
\* of the path's segment, private, of the configured policy and owner; any
\* other call is the poll for the new bucket
C12_OneCreation ==
    /\ Cardinality({i \in 1..Len(calls) : calls[i].op = "ContainerPut"}) = 1
    /\ calls[1].op = "ContainerPut"
    /\ calls[1].name = C12_Segments[1]
    /\ calls[1].hdr = [acl |-> "private", policy |-> defaultBucketPolicy, owner |-> owner]
    /\ \A i \in 2..Len(calls) : calls[i].op = "ContainerGet"
    /\ res.err = "" =>
          \E i \in 1..Len(containers) :
              containers[i].id = nextCid - 1 /\ containers[i].name = C12_Segments[1]

\* a Mkdir of several segments is refused before any backend call
C12_Nested ==
    Len(C12_Segments) > 1 => (res.err = "supported only first level dirs" /\ calls = <<>>)

C13_Deletes(cs) == SelectSeq(cs, LAMBDA x : x.op \in {"ObjectDelete", "ContainerDelete"})

\* a Remove or Rmdir served in non-read-only mode, no backend call failing,
\* whose first segment resolves to the bucket cnr: with a second, non-empty
\* segment n it deletes one object of file name n and no bucket, or returns
\* not-found and deletes nothing when the bucket has no such object; with
\* one segment it deletes the bucket
C13_Step ==
    (/\ res'.op = "Filecmd" /\ res'.method \in {"Remove", "Rmdir"}
     /\ ~readOnly /\ res'.fail = "")
    => \E segs \in {Split(TrimPrefix(res'.path, delimiter))} :
       \E cnr \in {getContainerByName(Ctx(0), segs[1])} :
       \E dels \in {C13_Deletes(calls')} :
          cnr.err = "" =>
            /\ (Len(segs) = 2 /\ segs[2] # <<>>) =>
                  IF Named(objects, cnr.val.CID, segs[2]) = {}
                  THEN /\ res'.err = "not found"
                       /\ dels = <<>>
                       /\ objects' = objects /\ containers' = containers
                  ELSE /\ res'.err = ""
                       /\ Len(dels) = 1
                       /\ dels[1].op = "ObjectDelete"
                       /\ dels[1].cnr = cnr.val.CID
                       /\ \E i \in Named(objects, cnr.val.CID, segs[2]) :
                             /\ dels[1].obj = objects[i].id
                             /\ objects' = Without(objects, {i})
                       /\ containers' = containers
            /\ (Len(segs) = 1 /\ segs[1] # <<>>) =>
                  /\ res'.err = ""
                  /\ Len(dels) = 1
                  /\ dels[1].op = "ContainerDelete"
                  /\ dels[1].cnr = cnr.val.CID
                  /\ \A i \in 1..Len(containers') : containers'[i].id # cnr.val.CID

\* C13: in non-read-only mode, Remove/Rmdir on /b/n with non-empty n resolves
\* n by display-name search inside bucket b and issues exactly one object
\* delete, for an object whose file name is n, and no bucket delete; if no
\* object of b has that name it returns not-found and issues no delete; on
\* /b it issues exactly one delete of bucket b.
C13_Remove == [][C13_Step]_vars

\* a Remove of /a/f that deleted one of two objects named f and kept the
\* bucket
C13_OneOfTwoRemoved ==
    /\ res.op = "Filecmd"
    /\ res.method = "Remove"
    /\ res.path = <<"/", "a", "/", "f">>
    /\ res.err = ""
    /\ Len(C13_Deletes(calls)) = 1
    /\ Len(containers) = 1
    /\ Cardinality(Named(objects, containers[1].id, <<"f">>)) = 1

\* a List or Stat of /a, no backend call failing, where a resolves to a
\* bucket without objects
C14_EmptyBucket ==
    /\ res.op = "Filelist"
    /\ res.method \in {"List", "Stat"}
    /\ res.path = <<"/", "a">>
    /\ res.fail = ""
    /\ \E cnr \in {getContainerByName(Ctx(0), <<"a">>)} :
          cnr.err = "" /\ SelectIds(objects, cnr.val.CID, <<>>) = <<>>

\* C14: for an existing bucket b1 with no objects, List("/b1") succeeds with
\* an empty sequence, Stat("/b1") returns a single directory entry named b1,
\* and Stat("/") returns a single directory entry named "/" without issuing
\* any backend call.
C14_EmptyListing ==
    /\ C14_EmptyBucket =>
          /\ res.err = ""
          /\ res.method = "List" => res.entries = <<>>
          /\ res.method = "Stat" =>
                /\ Len(res.entries) = 1
                /\ IsDir(res.entries[1])
                /\ Name(res.entries[1]) = <<"a">>
    /\ (res.op = "Filelist" /\ res.method = "Stat" /\ res.path = <<"/">>) =>
          /\ res.err = ""
          /\ Len(res.entries) = 1
          /\ IsDir(res.entries[1])
          /\ Name(res.entries[1]) = <<"/">>
          /\ calls = <<>>

\* a List of the empty bucket answered with no entry and no error
C14_ListedEmpty ==
    /\ C14_EmptyBucket
    /\ res.method = "List"
    /\ res.err = ""
    /\ res.entries = <<>>
    /\ calls # <<>>

----------------------------------------------------------------------------
(* Properties of error handling *)

\* C15: for every operation, if a backend call made during it fails, a
\* failure while streaming the bytes of the range fetch inside ReadAt
\* included, the operation returns a failure to its caller; it never reports
\* success or io.EOF in place of the backend failure.
C15_NeverSwallowed ==
    res.fail # "" => res.err \notin {"", "EOF", "panic"}

----------------------------------------------------------------------------
(* Properties of the dispatcher: Get, the no-op commands, bucket resolution *)

\* a Get step: on the root or on a bucket path it returns an error; it
\* returns a reader only on an object entry, which the reader is bound to,
\* and leaves the session's reader alone otherwise
C17_Step ==
    res'.op = "Fileread" =>
        /\ Len(Split(TrimPrefix(res'.path, delimiter))) = 1 => res'.err # ""
        /\ IF res'.err = ""
           THEN /\ Len(res'.entries) = 1
                /\ res'.entries[1].type = "ObjectInfo"
                /\ ~IsDir(res'.entries[1])
                /\ ObjExists(res'.entries[1].CID, res'.entries[1].ObjectID)
                /\ reader' = [open |-> TRUE, file |-> res'.entries[1]]
           ELSE /\ res'.entries = <<>>
                /\ reader' = reader

\* C17: Get on a path that resolves to the root or to a bucket returns an
\* error and constructs no reader; a reader is returned only when the path
\* resolves to an object entry.
C17_ReaderOnlyOnObject == [][C17_Step]_vars

\* a Get of an existing bucket, refused though every backend call succeeded
C17_BucketRefused ==
    /\ res.op = "Fileread"
    /\ res.path = <<"/", "a">>
    /\ res.fail = ""
    /\ calls # <<>>
    /\ res.err = "couldn't get file stat"

\* C18: Setstat, Rename, Link and Symlink issue no backend call and leave
\* the backend's buckets and objects unchanged in every mode; of these only
\* Setstat reports success to the caller: Rename, Link and Symlink are not
\* accepted as successful no-ops.
C18_OnlySetstatAccepted ==
    [][(res'.op = "Filecmd" /\ res'.method \in {"Setstat", "Rename", "Link", "Symlink"}) =>
          /\ calls' = <<>>
          /\ containers' = containers
          /\ objects' = objects
          /\ res'.method # "Setstat" => res'.err # ""]_vars

\* a Stat of a one-segment path: the resolution of a bucket segment
C19_BucketStat ==
    /\ res.op = "Filelist"
    /\ res.method = "Stat"
    /\ Len(Split(TrimPrefix(res.path, delimiter))) = 1
    /\ TrimPrefix(res.path, delimiter) # <<>>

\* the display name of the i-th bucket of the backend's enumeration
C19_Display(i) ==
    IF containers[i].name # <<>> THEN containers[i].name ELSE EncodeToString(containers[i].id)

\* the identifier whose string form is seg, 0 when seg is no identifier
C19_Id(seg) ==
    IF \E k \in 1..Len(IdChars) : seg = <<IdChars[k]>>
    THEN CHOOSE k \in 1..Len(IdChars) : seg = <<IdChars[k]>>
    ELSE 0

\* C19: if the bucket segment decodes as a bucket identifier, exactly one
\* direct bucket fetch is issued and no bucket listing, a failed fetch
\* returning its error without a name lookup; if it does not decode, the
\* owner's buckets are listed and the first in enumeration order whose
\* display name equals the segment is returned, or not-found if none is.
C19_DualMode ==
    C19_BucketStat =>
        \E seg \in {TrimPrefix(res.path, delimiter)} :
          IF C19_Id(seg) # 0
          THEN /\ calls = <<Call("ContainerGet", C19_Id(seg), 0, <<>>, 0, 0)>>
               /\ (res.fail # "" \/ ~CnrExists(C19_Id(seg))) => res.err # ""
               /\ res.err = "" => res.entries[1].CID = C19_Id(seg)
          ELSE /\ calls[1].op = "ContainerList"
               /\ \A i \in 2..Len(calls) :
                     calls[i].op = "ContainerGet" /\ calls[i].cnr = containers[i - 1].id
               /\ res.fail # "" => res.err # ""
               /\ res.fail = "" =>
                     /\ Len(calls) = Len(containers) + 1
                     /\ \E m \in {{i \in 1..Len(containers) : C19_Display(i) = seg}} :
                           IF m = {} THEN res.err = "not found"
                           ELSE /\ res.err = ""
                                /\ \E i \in m :
                                      /\ \A j \in m : i <= j
                                      /\ res.entries[1].CID = containers[i].id

\* a name shared by two buckets resolved to the one enumerated first, which
\* has the larger identifier
C19_FirstOfTwo ==
    /\ C19_BucketStat
    /\ res.path = <<"/", "a">>
    /\ res.err = ""
    /\ Len(containers) = 2
    /\ containers[1].name = containers[2].name
    /\ containers[1].id > containers[2].id
    /\ res.entries[1].CID = containers[1].id

----------------------------------------------------------------------------
(* Properties of the entries' times *)

\* C20: for bucket entries and object entries alike, the entry's creation
\* time equals the stored creation timestamp whenever that is present and
\* parseable, and equals the construction-time now only when it is absent or
\* unparseable.
C20_StoredTimeUsed ==
    res.op \in {"getContainer", "getObjectFile"} =>
        IF res.data # <<>> /\ ParseInt(res.data).ok
        THEN res.n = ParseInt(res.data).val
        ELSE res.n = res.off

----------------------------------------------------------------------------
(* Properties of the entries' kind and size *)

\* C21: every entry returned by List or Stat is a bucket entry (the synthetic
\* root included) that reports IsDir = true and Size = 0, or an object entry
\* that reports IsDir = false and Size equal to the payload size the backend
\* reported for the object in the head call that built the entry.
C21_KindAndSize ==
    (res.op = "Filelist" /\ res.method \in {"List", "Stat"} /\ res.err = "") =>
        \A i \in 1..Len(res.entries) :
            \/ /\ res.entries[i].type = "ContainerInfo"
               /\ IsDir(res.entries[i])
               /\ Size(res.entries[i]) = 0
            \/ /\ res.entries[i].type = "ObjectInfo"
               /\ ~IsDir(res.entries[i])
               /\ \E j \in 1..Len(objects) :
                     /\ objects[j].cnr = res.entries[i].CID
                     /\ objects[j].id = res.entries[i].ObjectID
                     /\ Size(res.entries[i]) = Len(objects[j].payload)

\* a listing returned an object entry of two bytes
C21_ObjectListed ==
    /\ res.op = "Filelist" /\ res.method = "List" /\ res.err = ""
    /\ \E i \in 1..Len(res.entries) :
          res.entries[i].type = "ObjectInfo" /\ Size(res.entries[i]) = 2

----------------------------------------------------------------------------
(* Properties of the in-memory writer *)

\* a WriteAt call of the in-memory writer: accepted exactly at the end of
\* the staged bytes, which it extends by p; refused otherwise, with n = 0
\* and the staged bytes left as they were
C22_Step ==
    (res'.op = "WriteAt" /\ res.op = "none") =>
        IF res'.off = Len(writers[res'.h].buffer)
        THEN /\ res'.err = ""
             /\ res'.n = Len(res'.data)
             /\ writers'[res'.h].buffer = writers[res'.h].buffer \o res'.data
        ELSE /\ res'.err = "unsupported"
             /\ res'.n = 0
             /\ writers' = writers

\* C22: in the in-memory (append-only) writer, WriteAt(p, off) is accepted
\* only when off equals the current staged length; any other offset
\* (negative, overlapping, leaving a gap) returns an unsupported error with
\* n = 0 and leaves the buffer unchanged, so the buffer is always the
\* concatenation of the accepted writes in call order.
C22_AppendOnly == [][C22_Step]_vars

\* an overlapping write was refused after two writes had been accepted
C22_RefusedAfterTwo ==
    /\ res.op = "WriteAt" /\ res.err = "unsupported" /\ res.off = 0 /\ res.data = <<1>>
    /\ writers[res.h].buffer = <<1, 1>>

----------------------------------------------------------------------------
(* Properties of the temporary-file writer as a random-access byte store *)

\* the store after a write of p at off >= 0 as the byte-store reading has
\* it, with the length given by len: the written range holds p, bytes staged
\* before keep their value, every other byte is zero
C23_Store(buffer, p, off, len) ==
    [i \in 1..len |->
        IF i > off /\ i <= off + Len(p) THEN p[i - off]
        ELSE IF i <= Len(buffer) THEN buffer[i]
        ELSE 0]

C23_Max(a, b) == IF a > b THEN a ELSE b

\* what holds of every WriteAt and Close whatever the length rule: negative
\* offsets fail and stage nothing, other offsets are accepted in full, a
\* repeated write changes nothing, writes that do not overlap commute, and a
\* successful Close uploads the staged bytes
C23_Common(h) ==
    /\ (res'.op = "WriteAt" /\ res'.off < 0) =>
          res'.err # "" /\ res'.n = 0 /\ writers' = writers
    /\ (res'.op = "WriteAt" /\ res'.off >= 0) =>
          /\ res'.err = "" /\ res'.n = Len(res'.data)
          /\ WriteAt(writers'[h].buffer, res'.data, res'.off).buffer = writers'[h].buffer
          /\ \A q \in IoChunks, o \in 0..MaxLen :
                (o + Len(q) <= res'.off \/ res'.off + Len(res'.data) <= o) =>
                    WriteAt(writers'[h].buffer, q, o).buffer
                      = WriteAt(WriteAt(writers[h].buffer, q, o).buffer,
                                res'.data, res'.off).buffer
    /\ (res'.op = "Close" /\ res'.err = "") =>
          \E j \in 1..Len(objects') :
              objects'[j].id = nextOid /\ objects'[j].payload = writers[h].buffer

\* the length rule as stated: every accepted write counts, an empty one too
C23_StepAnyWrite ==
    (res.op = "none" /\ res'.op \in {"WriteAt", "Close"}) =>
        /\ C23_Common(res'.h)
        /\ (res'.op = "WriteAt" /\ res'.off >= 0) =>
              writers'[res'.h].buffer =
                  C23_Store(writers[res'.h].buffer, res'.data, res'.off,
                            C23_Max(Len(writers[res'.h].buffer),
                                    res'.off + Len(res'.data)))

\* the length rule with empty writes left out: they stage nothing
C23_StepNonEmptyWrite ==
    (res.op = "none" /\ res'.op \in {"WriteAt", "Close"}) =>
        /\ C23_Common(res'.h)
        /\ (res'.op = "WriteAt" /\ res'.off >= 0) =>
              writers'[res'.h].buffer =
                  C23_Store(writers[res'.h].buffer, res'.data, res'.off,
                            IF res'.data = <<>> THEN Len(writers[res'.h].buffer)
                            ELSE C23_Max(Len(writers[res'.h].buffer),
                                         res'.off + Len(res'.data)))

\* C23 as stated: in the temp-file writer, WriteAt with a negative offset
\* fails, every non-negative offset is accepted, and the payload uploaded by
\* Close is the byte store of length max(off + len(p)) over all accepted
\* writes, each byte holding the last write covering it and uncovered bytes
\* zero; hence non-overlapping writes commute and a repeated write is
\* idempotent.
C23_ByteStore == [][C23_StepAnyWrite]_vars

\* C23, amended: the same, with the length max(off + len(p)) taken over the
\* accepted writes of at least one byte (0 when there is none): a write of
\* no bytes is accepted and leaves the store as it was, at any offset.
C23_ByteStoreOfNonEmptyWrites == [][C23_StepNonEmptyWrite]_vars

\* a write past the end of the staged bytes left a zero byte in the gap
C23_GapZeroFilled ==
    /\ res.op = "WriteAt" /\ res.err = "" /\ res.off = 1 /\ res.data = <<1>>
    /\ writers[res.h].buffer = <<0, 1>>

----------------------------------------------------------------------------
(* Properties of the number of backend calls of an operation *)

\* the operations other than List that reach a handler
C24_NonListing ==
    \/ res'.op = "Filelist" /\ res'.method = "Stat"
    \/ res'.op \in {"Fileread", "Filewrite", "ReadAt", "Close"}
    \/ res'.op = "Filecmd" /\ res'.method \in {"Mkdir", "Remove", "Rmdir"}

\* the calls that resolve the bucket segment of path among n buckets: one
\* fetch for an identifier, else one enumeration and a fetch per bucket
C24_Resolve(path, n) ==
    IF C19_Id(Split(TrimPrefix(path, delimiter))[1]) # 0 THEN 1 ELSE 1 + n

\* the calls an operation issues once the bucket is resolved
C24_Then(op, method, path) ==
    Bind(Split(TrimPrefix(path, delimiter)), LAMBDA split :
      IF op = "Filewrite" THEN 0
      ELSE IF Len(split) = 2 /\ split[2] # <<>>
           THEN (IF op = "Filecmd" THEN 3 ELSE 1)
           ELSE (IF op = "Filecmd" THEN 1 ELSE 0))

\* the calls of a non-listing operation that runs to its end among n buckets
C24_Calls(op, method, path, n) ==
    IF op \in {"ReadAt", "Close"} THEN 1
    ELSE IF op = "Filecmd" /\ method = "Mkdir" THEN 2
    ELSE IF TrimPrefix(path, delimiter) = <<>> /\ op # "Filecmd" /\ op # "Filewrite" THEN 0
    ELSE C24_Resolve(path, n) + C24_Then(op, method, path)

C24_StepAtMostOne ==
    (res.op = "none" /\ C24_NonListing) => Len(calls') <= 1

C24_StepCounted ==
    (res.op = "none" /\ C24_NonListing) =>
        /\ Len(calls') <= C24_Calls(res'.op, res'.method, res'.path, Len(containers))
        /\ (res'.err = "" /\ res'.op # "ReadAt") =>
              Len(calls') = C24_Calls(res'.op, res'.method, res'.path, Len(containers))
        /\ res'.op \in {"ReadAt", "Close"} => Len(calls') <= 1

----------------------------------------------------------------------------
(* Properties of Mkdir on the root *)

\* C25: in non-read-only mode, Mkdir on the root path (empty once the single
\* leading delimiter is stripped, zero segments) creates no bucket:
\* putContainer is invoked only for a path of exactly one non-empty segment,
\* so the request neither reaches the placement-policy decoding nor issues a
\* bucket creation.
C25_RootMkdirCreatesNothing ==
    (/\ res.op = "Filecmd" /\ res.method = "Mkdir"
     /\ ~readOnly
     /\ TrimPrefix(res.path, delimiter) = <<>>) =>
        /\ \A i \in 1..Len(calls) : calls[i].op # "ContainerPut"
        /\ res.err # "invalid placement policy"

----------------------------------------------------------------------------
(* Properties of Remove on paths that are not bucket/object *)

\* a Remove or Rmdir served in non-read-only mode, no backend call failing,
\* on a path that does not split into two segments with a non-empty second
\* and whose first segment resolves to the bucket cnr: the bucket is deleted
\* by one bucket delete, and no object is searched, fetched or deleted
C26_Step ==
    (/\ res.op = "none"
     /\ res'.op = "Filecmd" /\ res'.method \in {"Remove", "Rmdir"}
     /\ ~readOnly /\ res'.fail = "")
    => \E segs \in {Split(TrimPrefix(res'.path, delimiter))} :
       \E cnr \in {getContainerByName(Ctx(0), segs[1])} :
          (cnr.err = "" /\ ~(Len(segs) = 2 /\ segs[2] # <<>>)) =>
            /\ res'.err = ""
            /\ calls'[Len(calls')] = Call("ContainerDelete", cnr.val.CID, 0, <<>>, 0, 0)
            /\ \A i \in 1..(Len(calls') - 1) :
                  calls'[i].op \in {"ContainerList", "ContainerGet"}
            /\ \A i \in 1..Len(containers') : containers'[i].id # cnr.val.CID
            /\ \A i \in 1..Len(objects') : objects'[i].cnr # cnr.val.CID

\* C26: Remove/Rmdir in non-read-only mode issues a bucket delete for the
\* bucket named by the first segment whenever the trimmed path does not split
\* into exactly two segments with a non-empty second one, a trailing
\* delimiter (/b/) and three or more segments (/b/x/y) included, and then no
\* object lookup or object delete is attempted.
C26_BucketDeleted == [][C26_Step]_vars

\* a Remove of /a/f/g deleted a bucket that held an object
C26_DeepPathRemovedBucket ==
    /\ res.op = "Filecmd" /\ res.method = "Remove" /\ res.err = ""
    /\ res.path = <<"/", "a", "/", "f", "/", "g">>
    /\ calls[Len(calls)].op = "ContainerDelete"
    /\ objects = <<>>
    /\ nextOid > 1

----------------------------------------------------------------------------
(* Properties of the read-only flag on reads *)

\* what every read request returns in the current state: the results and
\* the backend calls of Filelist, Fileread and, on the open reader, ReadAt
C27_Reads ==
    [f \in FailAts |->
        [list |-> [m \in ListMethods |-> [p \in Paths |-> Filelist(Ctx(f), m, p)]],
         get |-> [p \in Paths |-> Fileread(Ctx(f), p)],
         read |-> [L \in {1, MaxBuf} |-> [off \in 0..1 |->
                      IF reader.open THEN ReadAt(Ctx(f), reader.file, L, off, 0)
                      ELSE [c |-> Ctx(f), n |-> 0, err |-> "", data |-> <<>>]]]]]

C27_Step == (readOnly' # readOnly) => C27_Reads' = C27_Reads

\* C27: the read-only flag does not influence read operations: for the same
\* backend state and the same request, List, Stat, Readlink and Get and
\* every ReadAt return identical results and issue identical backend calls
\* whether ReadOnly is true or false.
C27_FlagIgnoredByReads == [][C27_Step]_vars

\* a read of an open reader served in read-only mode, the session having
\* started writable
C27_ReadWhileReadOnly ==
    /\ readOnly
    /\ reader.open
    /\ res.op = "ReadAt" /\ res.err = "" /\ res.n > 0

----------------------------------------------------------------------------
(* Properties of object resolution: identifier for Stat and Get, file name *)
(* for Remove                                                              *)

\* the calls of cs that follow the resolution of the bucket
C28_ObjectCalls(cs) ==
    SelectSeq(cs, LAMBDA x : x.op \notin {"ContainerList", "ContainerGet"})

\* a request on /a/seg with seg non-empty, the bucket a existing and no
\* backend call failing
C28_OnObjectPath ==
    /\ res.op = "none"
    /\ CnrExists(1)
    /\ res'.fail = ""
    /\ Len(Split(TrimPrefix(res'.path, delimiter))) = 2
    /\ Split(TrimPrefix(res'.path, delimiter))[2] # <<>>

C28_Step ==
    C28_OnObjectPath =>
      \E seg \in {Split(TrimPrefix(res'.path, delimiter))[2]} :
        /\ ((res'.op = "Filelist" /\ res'.method = "Stat") \/ res'.op = "Fileread") =>
              IF C19_Id(seg) = 0
              THEN res'.err # "" /\ C28_ObjectCalls(calls') = <<>>
              ELSE /\ C28_ObjectCalls(calls') = <<Call("ObjectHead", 1, C19_Id(seg), <<>>, 0, 0)>>
                   /\ res'.err = "" <=> ObjExists(1, C19_Id(seg))
                   /\ res'.err = "" => res'.entries[1].ObjectID = C19_Id(seg)
        /\ (res'.op = "Filecmd" /\ res'.method \in {"Remove", "Rmdir"}) =>
              /\ C28_ObjectCalls(calls')[1] = Call("ObjectSearchInit", 1, 0, seg, 0, 0)
              /\ IF Named(objects, 1, seg) = {}
                 THEN /\ res'.err = "not found"
                      /\ Len(C28_ObjectCalls(calls')) = 1
                      /\ objects' = objects
                 ELSE /\ res'.err = ""
                      /\ \E i \in Named(objects, 1, seg) : objects' = Without(objects, {i})

\* C28: Stat and Get resolve the second path segment only as an object
\* identifier (a segment that does not decode returns an error and issues no
\* head call), while Remove resolves it only through a file-name attribute
\* search; hence an object without a file-name attribute, listed under its
\* identifier string, cannot be removed through its listed name: Remove
\* returns not-found and deletes nothing.
C28_Asymmetric == [][C28_Step]_vars

\* a Remove through the listed name of an object without a file-name
\* attribute returned not-found and left the object in the bucket
C28_ListedNameNotRemovable ==
    /\ res.op = "Filecmd" /\ res.method = "Remove" /\ res.err = "not found"
    /\ res.path = <<"/", "a", "/">> \o EncodeToString(1)
    /\ objects = <<Obj(1, 1, FALSE, <<>>, <<1>>)>>

----------------------------------------------------------------------------
(* Properties of a sequential download *)

\* ceil(S / L)
C29_Ceil(S, L) == (S + L - 1) \div L

\* C29: a client that reads an object of size S sequentially with a fixed
\* buffer length L > 0, from offset 0 and advancing by the returned count
\* until io.EOF, always terminates, given that the backend range fetches
\* succeed: every call before EOF returns at least one byte (a full buffer,
\* so the call at offset off is call off / L + 1 of the loop), and io.EOF is
\* returned after at most ceil(S / L) + 1 calls.
C29_SequentialReadEnds ==
    (res.op = "ReadAt" /\ res.len > 0 /\ res.fail = "") =>
        /\ res.err \in {"", "EOF"}
        /\ res.off % res.len = 0
        /\ res.err = "" => (res.n >= 1 /\ res.n = res.len)
        /\ res.off \div res.len + 1 <= C29_Ceil(Size(res.entries[1]), res.len) + 1
        /\ res.off \div res.len + 1 = C29_Ceil(Size(res.entries[1]), res.len) + 1
              => res.err = "EOF"

\* the third call of a client reading a two-byte object byte by byte
\* returned io.EOF
C29_EofAtLastCall ==
    /\ res.op = "ReadAt" /\ res.len = 1 /\ res.off = 2 /\ res.err = "EOF"
    /\ Size(res.entries[1]) = 2

----------------------------------------------------------------------------
(* Properties of ListAt *)

\* the entries the last ListAt copied: the tail of what the client holds
C30_Page == SubSeq(res.data, Len(res.data) - res.n + 1, Len(res.data))

\* what holds of every ListAt whatever the count past the end: the copied
\* entries are consecutive from f[offset], io.EOF is returned exactly when
\* offset >= len(f) or n < len(ls), and a paging client holds the first
\* offset + n entries, all of them once it has seen io.EOF
C30_Common ==
    /\ C30_Page = SubSeq(res.entries, res.off + 1, res.off + res.n)
    /\ res.err = "EOF" <=> (res.off >= Len(res.entries) \/ res.n < res.len)
    /\ res.err \in {"", "EOF"}
    /\ res.method = "page" =>
          /\ res.data = SubSeq(res.entries, 1, res.off + res.n)
          /\ res.err = "EOF" => res.data = res.entries

\* C30 as stated: ListAt(ls, offset) on a list f with 0 <= offset copies
\* n = min(len(ls), len(f) - offset) consecutive entries starting at
\* f[offset] and returns io.EOF exactly when offset >= len(f) or n < len(ls);
\* paging from offset 0 with a fixed non-empty buffer and advancing by n until
\* io.EOF returns every entry of f exactly once, in order.
C30_ListAt ==
    res.op = "ListAt" =>
        /\ res.n = Min(res.len, Len(res.entries) - res.off)
        /\ C30_Common

\* C30, amended: the same, with n = min(len(ls), len(f) - offset) for
\* offset <= len(f) and n = 0 for every offset past the end of f.
C30_ListAtInRange ==
    res.op = "ListAt" =>
        /\ res.n = IF res.off > Len(res.entries) THEN 0
                   ELSE Min(res.len, Len(res.entries) - res.off)
        /\ C30_Common

\* a client paging through a listing of two entries one at a time has seen
\* io.EOF at its third call and holds both entries
C30_PagedThroughTwo ==
    /\ res.op = "ListAt" /\ res.method = "page" /\ res.len = 1
    /\ res.off = 2 /\ res.err = "EOF"
    /\ Len(res.entries) = 2 /\ res.data = res.entries

====
